---- MODULE Spec2Model ----
(***************************************************************************)
(* St Johns Park court monitor: GitHubCourtMonitor of github_runner.py.    *)
(*                                                                         *)
(* Python strings are modelled as sequences of one-character strings, so   *)
(* that lower/strip/replace/split/int and the construction of the slot     *)
(* identifier date_time_court are computed the way the code computes them. *)
(***************************************************************************)
EXTENDS Integers, Sequences, FiniteSets, TLC

VARIABLES
    pc,                  \* position of the process inside run_check
    state_file,          \* content of notified_slots.json on disk
    email_user,          \* EMAIL_USER is set (truthy)
    email_password,      \* EMAIL_PASSWORD is set (truthy)
    notification_email,  \* NOTIFICATION_EMAIL is set (truthy)
    summary,             \* summary['available_slots'] of this run
    filtered_slots,      \* temp_filtered_slots / filtered_slots
    previously_notified, \* set loaded by load_notified_slots
    new_filtered_slots,  \* slots of filtered_slots whose id is new
    save_outcome,        \* what the write of save_notified_slots did
    sent,                \* the calls of send_notification made by this run
    exc,                 \* the step whose exception the handler caught
    result,              \* what run_check returned
    trail,               \* the steps of run_check this run has completed
    file_at_start,       \* state_file when this run started
    canned_summary,      \* the Summary a fixed booking site keeps returning
    run_no,              \* number of the run (counted only on a fixed site)
    prev_save,           \* save_outcome of the previous run (kept only on a fixed site)
    history,             \* what an observer of consecutive runs has noted
    time_str,            \* argument of a call of parse_time_to_hour
    hour                 \* its return value

vars == << pc, state_file, email_user, email_password, notification_email,
           summary, filtered_slots, previously_notified, new_filtered_slots,
           save_outcome, sent, exc, result, trail, file_at_start,
           canned_summary, run_no, prev_save, history, time_str, hour >>

-----------------------------------------------------------------------------
(* Python str operations, on sequences of characters                        *)

Digits == {"0", "1", "2", "3", "4", "5", "6", "7", "8", "9"}

DigitVal(c) ==
    CASE c = "0" -> 0 [] c = "1" -> 1 [] c = "2" -> 2 [] c = "3" -> 3
      [] c = "4" -> 4 [] c = "5" -> 5 [] c = "6" -> 6 [] c = "7" -> 7
      [] c = "8" -> 8 [] c = "9" -> 9

\* str.lower(), for the letters that occur in time labels
LowerChar(c) ==
    CASE c = "A" -> "a" [] c = "P" -> "p" [] c = "M" -> "m" [] OTHER -> c

Lower(s) == [i \in 1..Len(s) |-> LowerChar(s[i])]

IsSpace(c) == c = " "

RECURSIVE LStrip(_)
LStrip(s) == IF s # <<>> /\ IsSpace(Head(s)) THEN LStrip(Tail(s)) ELSE s

RECURSIVE RStrip(_)
RStrip(s) ==
    IF s # <<>> /\ IsSpace(s[Len(s)]) THEN RStrip(SubSeq(s, 1, Len(s) - 1)) ELSE s

\* str.strip()
Strip(s) == RStrip(LStrip(s))

\* sub in s
Contains(s, sub) ==
    \E i \in 1..(Len(s) - Len(sub) + 1) : SubSeq(s, i, i + Len(sub) - 1) = sub

\* s.replace(old, '')
RECURSIVE Remove(_, _)
Remove(s, old) ==
    IF Len(s) < Len(old) THEN s
    ELSE IF SubSeq(s, 1, Len(old)) = old
         THEN Remove(SubSeq(s, Len(old) + 1, Len(s)), old)
         ELSE <<Head(s)>> \o Remove(Tail(s), old)

\* s.split(sep)[0]: the text before the first separator, the whole text if none
RECURSIVE SplitFirst(_, _)
SplitFirst(s, sep) ==
    IF s = <<>> \/ Head(s) = sep THEN <<>>
    ELSE <<Head(s)>> \o SplitFirst(Tail(s), sep)

\* s.split(sep): all the fields
RECURSIVE Split(_, _)
Split(s, sep) ==
    IF ~(\E i \in 1..Len(s) : s[i] = sep) THEN <<s>>
    ELSE LET first == SplitFirst(s, sep)
         IN  <<first>> \o Split(SubSeq(s, Len(first) + 2, Len(s)), sep)

\* the digits of an int() literal after its sign: digits, single underscores
\* allowed between two digits
IsDigitString(u) ==
    /\ u # <<>>
    /\ \A i \in 1..Len(u) : u[i] \in Digits \/ u[i] = "_"
    /\ u[1] \in Digits /\ u[Len(u)] \in Digits
    /\ \A i \in 1..(Len(u) - 1) : ~(u[i] = "_" /\ u[i + 1] = "_")

RECURSIVE DigitsValue(_, _)
DigitsValue(u, acc) ==
    IF u = <<>> THEN acc
    ELSE IF Head(u) = "_" THEN DigitsValue(Tail(u), acc)
         ELSE DigitsValue(Tail(u), acc * 10 + DigitVal(Head(u)))

Unsigned(s) ==
    LET t == Strip(s)
    IN  IF t # <<>> /\ Head(t) \in {"+", "-"} THEN Tail(t) ELSE t

\* int(s) does not raise ValueError
IntOk(s) == IsDigitString(Unsigned(s))

\* int(s), when IntOk(s)
IntVal(s) ==
    LET t == Strip(s)
        v == DigitsValue(Unsigned(s), 0)
    IN  IF t # <<>> /\ Head(t) = "-" THEN 0 - v ELSE v

-----------------------------------------------------------------------------
(* parse_time_to_hour                                                       *)

PM == <<"p", "m">>
AM == <<"a", "m">>

parse_time_to_hour(s) ==
    LET time_lower == Strip(Lower(s))
    IN  IF Contains(time_lower, PM)
        THEN LET t == Strip(Remove(time_lower, PM))
             IN  IF IntOk(t)
                 THEN (IF IntVal(t) # 12 THEN IntVal(t) + 12 ELSE IntVal(t))
                 ELSE -1
        ELSE IF Contains(time_lower, AM)
        THEN LET t == Strip(Remove(time_lower, AM))
             IN  IF IntOk(t) THEN (IF IntVal(t) = 12 THEN 0 ELSE IntVal(t)) ELSE -1
        ELSE LET t == SplitFirst(time_lower, ":")
             IN  IF IntOk(t) THEN IntVal(t) ELSE -1

-----------------------------------------------------------------------------
(* is_weekend and get_time_range_for_date                                   *)

AllDigits(u) == u # <<>> /\ \A i \in 1..Len(u) : u[i] \in Digits

IsLeap(y) == (y % 4 = 0) /\ ((y % 100 # 0) \/ (y % 400 = 0))

DaysInMonth(y, m) ==
    IF m = 2 THEN (IF IsLeap(y) THEN 29 ELSE 28)
    ELSE IF m \in {4, 6, 9, 11} THEN 30 ELSE 31

\* number of days of the months of year y before month m
RECURSIVE DaysBeforeMonth(_, _)
DaysBeforeMonth(y, m) ==
    IF m = 1 THEN 0 ELSE DaysBeforeMonth(y, m - 1) + DaysInMonth(y, m - 1)

DaysBeforeYear(y) ==
    LET z == y - 1 IN z * 365 + (z \div 4) - (z \div 100) + (z \div 400)

\* datetime.strptime(date_str, '%Y-%m-%d') does not raise: four digits of year,
\* one or two of month and of day, and a date of the calendar
StrptimeOk(date_str) ==
    LET parts == Split(date_str, "-")
    IN  /\ Len(parts) = 3
        /\ \A i \in 1..3 : AllDigits(parts[i])
        /\ Len(parts[1]) = 4
        /\ Len(parts[2]) <= 2
        /\ Len(parts[3]) <= 2
        /\ DigitsValue(parts[1], 0) >= 1
        /\ DigitsValue(parts[2], 0) \in 1..12
        /\ DigitsValue(parts[3], 0) \in
              1..DaysInMonth(DigitsValue(parts[1], 0), DigitsValue(parts[2], 0))

\* date_obj.weekday(): 0 = Monday .. 6 = Sunday
Weekday(date_str) ==
    LET parts == Split(date_str, "-")
        y == DigitsValue(parts[1], 0)
        m == DigitsValue(parts[2], 0)
        d == DigitsValue(parts[3], 0)
    IN  (DaysBeforeYear(y) + DaysBeforeMonth(y, m) + d + 6) % 7

\* a faulty variant: takes Friday and Saturday for the weekend
is_weekend_shifted(date_str) ==
    IF StrptimeOk(date_str) THEN Weekday(date_str) \in {4, 5} ELSE FALSE

is_weekend(date_str) ==
    IF StrptimeOk(date_str) THEN Weekday(date_str) \in {5, 6} ELSE FALSE

get_time_range_for_date(date_str) ==
    IF is_weekend(date_str)
    THEN [min_hour |-> 9, max_hour |-> 22]
    ELSE [min_hour |-> 17, max_hour |-> 24]

-----------------------------------------------------------------------------
(* Slots and their identifiers                                              *)

Slot(d, t, c) == [date |-> d, time |-> t, court |-> c]

\* f"{slot['date']}_{slot['time']}_{slot['court']}"
SlotId(slot) == slot.date \o <<"_">> \o slot.time \o <<"_">> \o slot.court

SlotIds(slots) == [i \in 1..Len(slots) |-> SlotId(slots[i])]

Range(q) == {q[i] : i \in 1..Len(q)}

-----------------------------------------------------------------------------
(* The state file: load_notified_slots and save_notified_slots              *)

MissingFile == [kind |-> "missing", ids |-> <<>>]
CorruptFile == [kind |-> "corrupt", ids |-> <<>>]
ListFile(ids) == [kind |-> "list", ids |-> ids]

\* set(json.load(f)); a missing file and a file json.load rejects give set()
load_notified_slots(file) ==
    IF file.kind = "list" THEN Range(file.ids) ELSE {}

\* open(..., 'w') can fail and leave the file as it was; json.dump or the
\* closing flush can fail after the file was truncated; both are swallowed
WriteOutcomes == {"written", "open_failed", "dump_failed"}

\* a faulty variant: keeps the earlier identifiers (a union instead of a replacement)
save_notified_slots_union(file, slots, write) ==
    CASE write = "written" -> ListFile(file.ids \o SlotIds(slots))
      [] write = "open_failed" -> file
      [] write = "dump_failed" -> CorruptFile

save_notified_slots(file, slots, write) ==
    CASE write = "written" -> ListFile(SlotIds(slots))
      [] write = "open_failed" -> file
      [] write = "dump_failed" -> CorruptFile

-----------------------------------------------------------------------------
(* The steps of run_check                                                   *)

\* hour != -1 and min_hour <= hour < max_hour
KeepSlot(slot) ==
    LET range == get_time_range_for_date(slot.date)
        h == parse_time_to_hour(slot.time)
    IN  h # -1 /\ range.min_hour <= h /\ h < range.max_hour

FilterSlots(available_slots) == SelectSeq(available_slots, KeepSlot)

\* a faulty variant: forgets to subtract the identifiers already notified
NewSlotIds_all(filtered, previously) == Range(SlotIds(filtered))

\* current_slot_ids - previously_notified
NewSlotIds(filtered, previously) == Range(SlotIds(filtered)) \ previously

NewFilteredSlots(filtered, previously) ==
    LET IsNew(slot) == SlotId(slot) \in NewSlotIds(filtered, previously)
    IN  SelectSeq(filtered, IsNew)

\* a faulty variant: sends whenever a slot passed the filter
ShouldNotify_filtered(new_slots, filtered) == filtered # <<>>

\* a faulty variant: never sends
ShouldNotify_never(new_slots, filtered) == FALSE

\* if new_filtered_slots:
ShouldNotify(new_slots, filtered) == new_slots # <<>>

\* the subject line, by the day types of the new slots
Subject(new_slots) ==
    LET weekday_count == Cardinality({i \in 1..Len(new_slots) : ~is_weekend(new_slots[i].date)})
        weekend_count == Cardinality({i \in 1..Len(new_slots) : is_weekend(new_slots[i].date)})
    IN  IF weekday_count > 0 /\ weekend_count > 0 THEN "New Tennis Courts Available"
        ELSE IF weekend_count > 0 THEN "New Tennis Courts Available (Weekend 9am-10pm)"
        ELSE "New Tennis Courts Available (After 5pm)"

\* the HTML of format_availability_email, reduced to the sections it holds
format_availability_email(new_slots, all_filtered_slots, all_slots) ==
    (IF new_slots # <<>> THEN <<"new">> ELSE <<>>)
    \o (IF all_filtered_slots # <<>> THEN <<"all_filtered", "book_now">> ELSE <<>>)
    \o (IF all_slots # <<>> THEN <<"all_slots">> ELSE <<>>)
    \o <<"footer">>

\* what the mail relay does with a message
SmtpOutcomes == {"accepted", "refused"}

\* a faulty variant: lets the relay's failure escape
send_notification_raises(smtp) ==
    IF ~(email_user /\ email_password /\ notification_email)
    THEN [outcome |-> "skipped", ret |-> "False"]
    ELSE IF smtp = "accepted"
         THEN [outcome |-> "delivered", ret |-> "True"]
         ELSE [outcome |-> "failed", ret |-> "raise"]

\* send_notification: its outcome and what it returns
send_notification(smtp) ==
    IF ~(email_user /\ email_password /\ notification_email)
    THEN [outcome |-> "skipped", ret |-> "False"]
    ELSE IF smtp = "accepted"
         THEN [outcome |-> "delivered", ret |-> "True"]
         ELSE [outcome |-> "failed", ret |-> "False"]

SendCall(kind, subject, body, smtp) ==
    LET r == send_notification(smtp)
    IN  [kind |-> kind, subject |-> subject, body |-> body,
         outcome |-> r.outcome, ret |-> r.ret]

\* a faulty variant: sends the error email whatever the configuration
ErrorEmailConfigured_always == TRUE

\* if self.email_user and self.notification_email:
ErrorEmailConfigured == email_user /\ notification_email

-----------------------------------------------------------------------------
(* The booking site's checker and the values it hands to run_check          *)

MaxSlots == 2

DigitChar(n) ==
    CASE n = 0 -> "0" [] n = 1 -> "1" [] n = 2 -> "2" [] n = 3 -> "3"
      [] n = 4 -> "4" [] n = 5 -> "5" [] n = 6 -> "6" [] n = 7 -> "7"
      [] n = 8 -> "8" [] n = 9 -> "9"

TwoDigit(n) == <<DigitChar(n \div 10), DigitChar(n % 10)>>
Dec(n) == IF n < 10 THEN <<DigitChar(n)>> ELSE TwoDigit(n)

Friday    == <<"2", "0", "2", "5", "-", "0", "9", "-", "0", "5">>
Saturday  == <<"2", "0", "2", "5", "-", "0", "9", "-", "0", "6">>
Sunday    == <<"2", "0", "2", "5", "-", "0", "9", "-", "0", "7">>
Monday    == <<"2", "0", "2", "5", "-", "0", "9", "-", "0", "8">>
LeapDay   == <<"2", "0", "2", "4", "-", "0", "2", "-", "2", "9">>  \* a Thursday
ShortSat  == <<"2", "0", "2", "5", "-", "9", "-", "6">>            \* Saturday
Feb30     == <<"2", "0", "2", "5", "-", "0", "2", "-", "3", "0">>  \* no such day
NoDate    == <<"s", "o", "o", "n">>

Bogus     == <<"b", "o", "g", "u", "s">>
Court1    == <<"c", "o", "u", "r", "t", "_", "1">>

HourLabel(h, mm) == TwoDigit(h) \o <<":">> \o mm
PmLabel(n) == Dec(n) \o PM
AmLabel(n) == Dec(n) \o AM

\* the slots the site offers in the runs of the monitor
RunSlots ==
    { Slot(Saturday, HourLabel(10, <<"0", "0">>), Court1),  \* weekend, in window
      Slot(Friday, HourLabel(17, <<"0", "0">>), Court1),    \* weekday, in window
      Slot(Saturday, AmLabel(13), Court1),                  \* no such time
      Slot(Friday, Bogus, Court1) }                         \* no time at all

Summaries == UNION {[1..n -> RunSlots] : n \in 0..MaxSlots}

\* the runs an observer follows one after the other are runs on a site that
\* offers at most MaxOffered slots at a time
MaxOffered == 1

ObservedSummaries == UNION {[1..n -> RunSlots] : n \in 0..MaxOffered}

\* initialize_session() -> bool, or an exception out of the site's client
initialize_session == {"ok", "failed", "raised"}

\* get_all_slots_summary() -> Summary, or an exception; the Summary of a site
\* that is held fixed is the same every time
get_all_slots_summary ==
    IF canned_summary.fixed THEN {canned_summary.slots}
    ELSE IF history.mode = "off" THEN Summaries ELSE ObservedSummaries

\* format_summary_report(summary) returns the report or raises
format_summary_report == {"ok", "raised"}

NotCanned == [fixed |-> FALSE, slots |-> <<>>]

\* nobody follows the runs
NoHistory ==
    [mode |-> "off", last_kept |-> {}, gone |-> {}, notified |-> {}]

-----------------------------------------------------------------------------
(* The process: one run of run_check per invocation                         *)

InitFiles ==
    {MissingFile, CorruptFile}
    \cup {ListFile(SlotIds(q)) : q \in {q \in Summaries : Len(q) <= 1}}

\* a process that has not run yet, and no call of parse_time_to_hour made
Fresh ==
    /\ email_user = FALSE /\ email_password = FALSE /\ notification_email = FALSE
    /\ filtered_slots = <<>> /\ new_filtered_slots = <<>>
    /\ previously_notified = {}
    /\ save_outcome = "none" /\ prev_save = "none"
    /\ sent = <<>> /\ exc = "none" /\ result = "none"
    /\ run_no = 0
    /\ hour = 0

RunInit ==
    /\ Fresh
    /\ pc = "idle"
    /\ state_file \in InitFiles
    /\ file_at_start = state_file
    /\ summary = <<>>
    /\ trail = {}
    /\ time_str = <<>>
    /\ history = NoHistory

Init == RunInit /\ canned_summary = NotCanned

\* the same Summary in every run
InitTwice == RunInit /\ \E q \in Summaries : canned_summary = [fixed |-> TRUE, slots |-> q]

parse_vars == <<time_str, hour>>
site_vars == <<canned_summary>>
hist_vars == <<history>>
env_vars == <<email_user, email_password, notification_email>>

\* __main__ and __init__: a new process reads its environment
StartRun ==
    /\ pc = "idle"
    /\ canned_summary.fixed => run_no < 2
    /\ \E u \in BOOLEAN, p \in BOOLEAN, n \in BOOLEAN :
          /\ email_user' = u
          /\ email_password' = p
          /\ notification_email' = n
    /\ run_no' = IF canned_summary.fixed THEN run_no + 1 ELSE run_no
    /\ file_at_start' = state_file
    /\ pc' = "init"
    /\ UNCHANGED <<state_file, summary, filtered_slots, previously_notified,
                   new_filtered_slots, save_outcome, sent, exc, result, trail,
                   prev_save, site_vars, hist_vars, parse_vars>>

\* a faulty variant: goes on after a session that could not be established
AfterInitializeSession_ignore(r) ==
    CASE r = "ok" -> "summary" [] r = "failed" -> "summary" [] r = "raised" -> "except"

\* where run_check goes after initialize_session: on, out, or to the handler
AfterInitializeSession(r) ==
    CASE r = "ok" -> "summary" [] r = "failed" -> "done" [] r = "raised" -> "except"

\* run_check: if not self.checker.initialize_session(): return False
InitializeSession ==
    /\ pc = "init"
    /\ \E r \in initialize_session :
          /\ pc' = AfterInitializeSession(r)
          /\ result' = IF r = "failed" THEN "False" ELSE result
          /\ exc' = IF r = "raised" THEN "init" ELSE exc
          /\ trail' = IF r = "ok" THEN trail \cup {"init"} ELSE trail
    /\ UNCHANGED <<state_file, summary, filtered_slots, previously_notified,
                   new_filtered_slots, save_outcome, sent, file_at_start,
                   run_no, prev_save, env_vars, site_vars, hist_vars, parse_vars>>

\* run_check: summary = get_all_slots_summary(); format_summary_report(summary)
GetSummary ==
    /\ pc = "summary"
    /\ \/ /\ pc' = "except"
          /\ exc' = "summary"
          /\ UNCHANGED <<summary, trail>>
       \/ \E q \in get_all_slots_summary, r \in format_summary_report :
             /\ summary' = q
             /\ trail' = trail \cup {"summary"}
             /\ pc' = IF r = "ok" THEN "filter" ELSE "except"
             /\ exc' = IF r = "ok" THEN exc ELSE "report"
    /\ UNCHANGED <<state_file, filtered_slots, previously_notified,
                   new_filtered_slots, save_outcome, sent, result, file_at_start,
                   run_no, prev_save, env_vars, site_vars, hist_vars, parse_vars>>

\* run_check: the filter loop over summary['available_slots']
Filter ==
    /\ pc = "filter"
    /\ filtered_slots' = FilterSlots(summary)
    /\ trail' = trail \cup {"filter"}
    /\ pc' = "diff"
    /\ UNCHANGED <<state_file, summary, previously_notified, new_filtered_slots,
                   save_outcome, sent, exc, result, file_at_start,
                   run_no, prev_save, env_vars, site_vars, hist_vars, parse_vars>>

\* run_check: load the state, current ids minus previous ids
Diff ==
    /\ pc = "diff"
    /\ previously_notified' = load_notified_slots(state_file)
    /\ new_filtered_slots' = NewFilteredSlots(filtered_slots, load_notified_slots(state_file))
    /\ trail' = trail \cup {"diff"}
    /\ pc' = "save"
    /\ UNCHANGED <<state_file, summary, filtered_slots, save_outcome, sent, exc,
                   result, file_at_start, run_no, prev_save, env_vars, site_vars,
                   hist_vars, parse_vars>>

\* run_check: self.save_notified_slots(filtered_slots)
Save ==
    /\ pc = "save"
    /\ \E w \in WriteOutcomes :
          /\ state_file' = save_notified_slots(state_file, filtered_slots, w)
          /\ save_outcome' = w
    /\ trail' = trail \cup {"save"}
    /\ pc' = "notify"
    /\ UNCHANGED <<summary, filtered_slots, previously_notified, new_filtered_slots,
                   sent, exc, result, file_at_start, run_no, prev_save,
                   env_vars, site_vars, hist_vars, parse_vars>>

\* run_check: render and send if there are new slots; return True
Notify ==
    /\ pc = "notify"
    /\ IF ShouldNotify(new_filtered_slots, filtered_slots)
       THEN \E smtp \in SmtpOutcomes :
              LET call == SendCall("availability", Subject(new_filtered_slots),
                                   format_availability_email(new_filtered_slots,
                                                             filtered_slots, summary),
                                   smtp)
              IN  /\ sent' = Append(sent, call)
                  /\ pc' = IF call.ret = "raise" THEN "except" ELSE "done"
                  /\ exc' = IF call.ret = "raise" THEN "notify" ELSE exc
                  /\ result' = IF call.ret = "raise" THEN result ELSE "True"
                  /\ trail' = IF call.ret = "raise" THEN trail ELSE trail \cup {"notify"}
       ELSE /\ result' = "True"
            /\ pc' = "done"
            /\ trail' = trail \cup {"notify"}
            /\ UNCHANGED <<sent, exc>>
    /\ UNCHANGED <<state_file, summary, filtered_slots, previously_notified,
                   new_filtered_slots, save_outcome, file_at_start, run_no,
                   prev_save, env_vars, site_vars, hist_vars, parse_vars>>

\* run_check: except Exception: send the error email if configured; return False
Except ==
    /\ pc = "except"
    /\ IF ErrorEmailConfigured
       THEN \E smtp \in SmtpOutcomes :
              LET call == SendCall("error", "Tennis Court Monitor Error", <<"error">>, smtp)
              IN  /\ sent' = Append(sent, call)
                  /\ result' = IF call.ret = "raise" THEN "raised" ELSE "False"
       ELSE /\ result' = "False"
            /\ UNCHANGED sent
    /\ trail' = trail \cup {"except"}
    /\ pc' = "done"
    /\ UNCHANGED <<state_file, summary, filtered_slots, previously_notified,
                   new_filtered_slots, save_outcome, exc, file_at_start, run_no,
                   prev_save, env_vars, site_vars, hist_vars, parse_vars>>

\* what an observer notes when a run ends.
\* mode "reappear": the identifiers the filter kept in this run (last_kept)
\* and those it kept in the run before and not in this one (gone), both only
\* over successful runs: runs that returned True and wrote the state file.
\* mode "notified": the identifiers that were new in a run whose availability
\* email send_notification reported as sent (returned True).
HistoryAfterRun ==
    LET kept == {SlotId(filtered_slots[i]) : i \in 1..Len(filtered_slots)}
        new_ids == {SlotId(new_filtered_slots[i]) : i \in 1..Len(new_filtered_slots)}
        delivered == \E i \in 1..Len(sent) :
                        sent[i].kind = "availability" /\ sent[i].ret = "True"
    IN  CASE history.mode = "reappear" ->
                 IF result = "True" /\ save_outcome = "written"
                 THEN [history EXCEPT !.last_kept = kept,
                                      !.gone = history.last_kept \ kept]
                 ELSE [history EXCEPT !.last_kept = {}, !.gone = {}]
          [] history.mode = "notified" ->
                 [history EXCEPT !.notified =
                      history.notified \cup (IF delivered THEN new_ids ELSE {})]
          [] OTHER -> history

\* __main__: the process exits; only the state file survives it
Exit ==
    /\ pc = "done"
    /\ pc' = "idle"
    /\ prev_save' = IF canned_summary.fixed THEN save_outcome ELSE prev_save
    /\ file_at_start' = state_file
    /\ email_user' = FALSE /\ email_password' = FALSE /\ notification_email' = FALSE
    /\ summary' = <<>> /\ filtered_slots' = <<>> /\ new_filtered_slots' = <<>>
    /\ previously_notified' = {}
    /\ save_outcome' = "none"
    /\ sent' = <<>> /\ exc' = "none" /\ result' = "none" /\ trail' = {}
    /\ history' = HistoryAfterRun
    /\ UNCHANGED <<state_file, run_no, site_vars, parse_vars>>

Next ==
    \/ StartRun
    \/ InitializeSession
    \/ GetSummary
    \/ Filter
    \/ Diff
    \/ Save
    \/ Notify
    \/ Except
    \/ Exit

Spec == Init /\ [][Next]_vars

SpecTwice == InitTwice /\ [][Next]_vars

\* the state file before the monitor has ever written identifiers to it
EmptyFiles == {MissingFile, ListFile(<<>>)}

ObservedInit ==
    /\ Fresh
    /\ pc = "idle"
    /\ state_file \in EmptyFiles
    /\ file_at_start = state_file
    /\ summary = <<>>
    /\ trail = {}
    /\ time_str = <<>>
    /\ canned_summary = NotCanned

\* consecutive runs, followed for slots that go and come back
InitReappear == ObservedInit /\ history = [NoHistory EXCEPT !.mode = "reappear"]

SpecReappear == InitReappear /\ [][Next]_vars

\* consecutive runs from an empty state file, followed for the emails sent
InitNotified == ObservedInit /\ history = [NoHistory EXCEPT !.mode = "notified"]

SpecNotified == InitNotified /\ [][Next]_vars

-----------------------------------------------------------------------------
(* parse_time_to_hour and the filter on their own, over many labels         *)

Minutes == {<<"0", "0">>, <<"3", "0">>}

\* "Npm", "Nam", "HH:MM", in and out of range, and labels of no such form
ParseLabels ==
    {PmLabel(n) : n \in 0..13} \cup {AmLabel(n) : n \in 0..13}
    \cup {HourLabel(h, mm) : h \in 0..25, mm \in Minutes}
    \cup { Bogus, <<>>, <<"1", "8">>, <<"8", ":", "3", "0", "p", "m">>,
           <<" ", "8", " ", "P", "M", " ">>, <<"p", "m", "8">>,
           <<"-", "3", "a", "m">>, <<"1", "_", "2">>, <<"7", ":", "5">>,
           <<"n", "o", "o", "n">> }

InitParse ==
    /\ Fresh
    /\ canned_summary = NotCanned
    /\ pc = "parse"
    /\ time_str \in ParseLabels
    /\ history = NoHistory
    /\ state_file = MissingFile
    /\ file_at_start = MissingFile
    /\ summary = <<>>
    /\ trail = {}

\* one call of parse_time_to_hour(time_str)
ParseTimeToHour ==
    /\ pc = "parse"
    /\ hour' = parse_time_to_hour(time_str)
    /\ pc' = "parsed"
    /\ UNCHANGED <<state_file, summary, filtered_slots, previously_notified,
                   new_filtered_slots, save_outcome, sent, exc, result, trail,
                   file_at_start, run_no, prev_save, env_vars, site_vars,
                   hist_vars, time_str>>

SpecParse == InitParse /\ [][ParseTimeToHour]_vars

FilterDates == {Friday, Saturday, Sunday, Monday, LeapDay, ShortSat, Feb30, NoDate}

FilterLabels ==
    {HourLabel(h, <<"0", "0">>) : h \in 0..24}
    \cup {PmLabel(n) : n \in 1..12} \cup {AmLabel(n) : n \in 1..12}
    \cup {Bogus, AmLabel(13), <<"1", "8">>}

\* Summaries of one available slot, and the Summaries of the runs
FilterSummaries ==
    {<<Slot(d, t, Court1)>> : d \in FilterDates, t \in FilterLabels} \cup Summaries

\* a run that has obtained its Summary and is about to filter it
InitFilter ==
    /\ Fresh
    /\ canned_summary = NotCanned
    /\ pc = "filter"
    /\ summary \in FilterSummaries
    /\ trail = {"init", "summary"}
    /\ state_file = MissingFile
    /\ file_at_start = MissingFile
    /\ time_str = <<>>
    /\ history = NoHistory

SpecFilter == InitFilter /\ [][Filter]_vars

-----------------------------------------------------------------------------
(* Claims                                                                   *)

Done == pc = "done"

\* the identifiers of the slots this run's filter kept
CurrentIds == {SlotId(filtered_slots[i]) : i \in 1..Len(filtered_slots)}

\* the identifiers the state file holds for the next run
NotifiedState == load_notified_slots(state_file)

ErrorCalls == {i \in 1..Len(sent) : sent[i].kind = "error"}
AvailabilityCalls == {i \in 1..Len(sent) : sent[i].kind = "availability"}

\* C1 as stated: after every run, whatever its outcome, the persisted state
\* is exactly the set of identifiers of the slots the run's filter kept.
C1_AsStated == Done => NotifiedState = CurrentIds

\* C1 amended: a run whose write of the state file succeeds leaves exactly the
\* identifiers of the slots its filter kept (no union, no leftover); a run that
\* does not reach the write, or whose open fails, leaves the file as it was;
\* a write that fails after truncating leaves an unreadable file.
C1_StateAfterRun ==
    Done =>
        CASE save_outcome = "written" ->
                 /\ state_file.kind = "list"
                 /\ NotifiedState = CurrentIds
          [] save_outcome = "dump_failed" ->
                 /\ state_file.kind = "corrupt"
                 /\ NotifiedState = {}
          [] OTHER -> state_file = file_at_start

\* a successful write that drops an identifier of the earlier state
C1_Witness ==
    /\ Done
    /\ save_outcome = "written"
    /\ filtered_slots # <<>>
    /\ load_notified_slots(file_at_start) \ CurrentIds # {}

C3_NoNewNoSend ==
    ("diff" \in trail /\ new_filtered_slots = <<>>) => sent = <<>>

\* a finished run with slots in the window, none of them new
C3_Witness ==
    /\ Done /\ result = "True"
    /\ filtered_slots # <<>> /\ new_filtered_slots = <<>>
    /\ Len(summary) > Len(filtered_slots)
    /\ sent = <<>>

\* the dates of the model that fall on a Saturday or a Sunday
WeekendDates == {Saturday, Sunday, ShortSat}

\* C4: the filter keeps a slot iff its time parses to an hour h with
\* 9 <= h < 22 on a Saturday or Sunday, 17 <= h < 24 on any other day or on a
\* date that is none; a slot whose time does not parse (-1) is never kept.
C4_FilterWindow ==
    "filter" \in trail =>
        \A i \in 1..Len(summary) :
            LET slot == summary[i]
                h == parse_time_to_hour(slot.time)
            IN  (slot \in Range(filtered_slots)) <=>
                    /\ h # -1
                    /\ IF slot.date \in WeekendDates
                       THEN 9 <= h /\ h < 22
                       ELSE 17 <= h /\ h < 24

\* the weekend slot at 10:00 is kept
C4_Witness ==
    /\ "filter" \in trail
    /\ summary = <<Slot(Saturday, HourLabel(10, <<"0", "0">>), Court1)>>
    /\ filtered_slots = summary

\* C5: a run with an established session and a non-empty new-slot set has
\* rendered the availability email and called send_notification with it by the
\* time it terminates.
C5_NewSlotsAreSent ==
    (Done /\ "diff" \in trail /\ new_filtered_slots # <<>>) =>
        \E i \in 1..Len(sent) :
            /\ sent[i].kind = "availability"
            /\ sent[i].body =
                  format_availability_email(new_filtered_slots, filtered_slots, summary)
            /\ sent[i].body[1] = "new"

\* a finished run that found new slots and called send_notification
C5_Witness ==
    /\ Done /\ new_filtered_slots # <<>>
    /\ AvailabilityCalls # {}

\* C6: when initialize_session returns false the run returns False, sends
\* nothing, obtains no Summary and leaves the state file as it was.
C6_SessionFailure ==
    (Done /\ exc = "none" /\ "init" \notin trail) =>
        /\ result = "False"
        /\ sent = <<>>
        /\ "summary" \notin trail /\ summary = <<>>
        /\ state_file = file_at_start

\* a run stopped by initialize_session over a state file that holds identifiers
C6_Witness ==
    /\ Done /\ exc = "none" /\ "init" \notin trail
    /\ state_file.kind = "list" /\ state_file.ids # <<>>

\* C7: a run that found new slots returns True whether the email is delivered,
\* refused by the relay or skipped for want of configuration; send_notification
\* returns False for the last two and never raises.
C7_SendFailureIsNotFatal ==
    /\ \A i \in 1..Len(sent) :
          /\ sent[i].ret \in {"True", "False"}
          /\ sent[i].outcome \in {"skipped", "failed"} => sent[i].ret = "False"
          /\ sent[i].outcome = "skipped" <=>
                ~(email_user /\ email_password /\ notification_email)
    /\ (Done /\ "diff" \in trail /\ new_filtered_slots # <<>>) => result = "True"

\* a run that returns True although the relay refused its email
C7_Witness ==
    /\ Done /\ result = "True"
    /\ new_filtered_slots # <<>>
    /\ Len(sent) = 1 /\ sent[1].outcome = "failed"

\* C8 as stated: a run in which a step raised sends (attempts) the error email
\* and returns False.
C8_AsStated ==
    (Done /\ exc # "none") => (result = "False" /\ ErrorCalls # {})

\* C8 amended: a run in which a step raised catches the exception and returns
\* False, never propagating; it calls send_notification with the error email
\* exactly when email_user and notification_email are both set.
C8_ExceptionHandled ==
    /\ result # "raised"
    /\ (Done /\ exc # "none") =>
          /\ result = "False"
          /\ AvailabilityCalls = {}
          /\ Cardinality(ErrorCalls) = (IF email_user /\ notification_email THEN 1 ELSE 0)

\* an exception while the Summary is obtained, reported by email
C8_Witness ==
    /\ Done /\ exc = "summary" /\ result = "False"
    /\ Len(sent) = 1 /\ sent[1].kind = "error" /\ sent[1].outcome = "delivered"

Minute == {<<DigitChar(a), DigitChar(b)>> : a \in 0..5, b \in 0..9}

\* the labels of the forms "Npm", "Nam" (N in 1..12) and "HH:MM" (HH in 00..23)
WellFormedLabels ==
    {PmLabel(n) : n \in 1..12} \cup {AmLabel(n) : n \in 1..12}
    \cup {HourLabel(h, mm) : h \in 0..23, mm \in Minute}

\* C9: a slot whose time label is malformed gets the sentinel -1 from
\* parse_time_to_hour and is skipped, the other slots being filtered as usual.
C9_MalformedLabelSkipped ==
    "filter" \in trail =>
        \A i \in 1..Len(summary) :
            summary[i].time \notin WellFormedLabels =>
                /\ parse_time_to_hour(summary[i].time) = -1
                /\ summary[i] \notin Range(filtered_slots)

\* C10: parse_time_to_hour gives N+12 for "Npm" (12 for "12pm"), N for "Nam"
\* (0 for "12am"), HH for "HH:MM", and -1 for every other label, so that its
\* result is -1 or an hour in 0..23.
C10_ParseTable ==
    pc = "parsed" =>
        /\ \A n \in 1..12 :
              /\ time_str = PmLabel(n) => hour = (IF n = 12 THEN 12 ELSE n + 12)
              /\ time_str = AmLabel(n) => hour = (IF n = 12 THEN 0 ELSE n)
        /\ \A h \in 0..23 : \A mm \in Minute :
              time_str = HourLabel(h, mm) => hour = h
        /\ time_str \notin WellFormedLabels => hour = -1
        /\ hour \in {-1} \cup 0..23

NewIds == {SlotId(new_filtered_slots[i]) : i \in 1..Len(new_filtered_slots)}

\* the identifiers kept two runs ago, not kept by the last run, kept again now
Reappeared == history.gone \cap CurrentIds

\* C11: over three consecutive successful runs (each returns True and writes
\* the state file), a slot kept by the filter in the first, not in the second
\* and again in the third is new in the third run, which calls
\* send_notification for it.
C11_ReappearedIsNew ==
    (Done /\ result = "True" /\ save_outcome = "written") =>
        \A id \in Reappeared : id \in NewIds /\ AvailabilityCalls # {}

\* a third run that finds the slot back and sends the email for it
C11_Witness ==
    /\ Done /\ result = "True" /\ save_outcome = "written"
    /\ Reappeared # {}
    /\ Reappeared \subseteq NewIds
    /\ Len(sent) = 1 /\ sent[1].kind = "availability"

\* C12: after any sequence of runs from an empty state file, every identifier
\* in the persisted state was new in a run whose availability email
\* send_notification reported as sent (it returned True).
C12_PersistedWasNotified ==
    pc = "idle" => NotifiedState \subseteq history.notified

\* C13: a run makes at most one call of send_notification: never both emails,
\* never one of them twice.
C13_AtMostOneSend == Len(sent) <= 1

\* a finished run that delivered its one availability email
C13_Witness ==
    /\ Done
    /\ Len(sent) = 1
    /\ sent[1].kind = "availability" /\ sent[1].outcome = "delivered"

====
